---- MODULE Spec2Model ----
(***************************************************************************)
(* A model of mebispy (src/mebispy/__init__.py): the UserSession class     *)
(* with its SAML login handshake, the get/post wrappers, ajax,             *)
(* make_survey_choice, and the exception classes LoginError,               *)
(* ActionFailedError and HTTPError.                                        *)
(*                                                                         *)
(* Representation.                                                         *)
(*  - A response body (r.text) is a sequence of tokens, one token per      *)
(*    place where one of the patterns of the code can match:               *)
(*    [kind |-> "action", value |-> v] stands for the text action="v",     *)
(*    kind "form-error" for the substring form-error, and so on.  The      *)
(*    order of the tokens is the order of the text, so re.search finds     *)
(*    the first token of its kind.                                         *)
(*  - The body of an ajax response is the parsed JSON array: a sequence    *)
(*    of objects, each a function from key names to values.                *)
(*  - Response headers are a function from lower-cased header names to     *)
(*    values (requests keeps them in a case-insensitive dictionary).       *)
(*  - Strings built by concatenation or by an f-string are sequences of    *)
(*    their parts, e.g. a URL is <<origin, path>>.                         *)
(*  - An exception is [type |-> class name, args |-> parts of the message].*)
(***************************************************************************)
EXTENDS Integers, Sequences, FiniteSets, TLC

VARIABLES
    debug,      \* the module global `debug`
    pc,         \* where the caller stands: "idle", inside _login, "ready", "raised"
    op,         \* the call in progress or last completed
    user,       \* argument `user` of the running constructor, "" outside it
    pwd,        \* argument `pwd` of the running constructor, "" outside it
    self,       \* the attributes of the UserSession object, by name
    r,          \* the local `r` of the running method: the last response
    sent,       \* the last request handed to self._session
    handshake,  \* the exchanges _login made on self._session, in order
    today,      \* the value date.today() gave the last HTTPError.__init__
    raised,     \* the exception the last call raised, or NoExc
    returned    \* the value the last call returned, or NoValue

vars == <<debug, pc, op, user, pwd, self, r, sent, handshake, today, raised, returned>>

(***************************************************************************)
(* Bounds and input sets                                                   *)
(***************************************************************************)
\* the longest body, in tokens, of the landing page, of the answer to the
\* credentials and of the final response
MaxLanding == 2

MaxCred == 4

MaxFinal == 3

Credentials == {<<"alice", "s3cret">>, <<"bob", "hunter2">>}

LoginStatusCodes == {200, 500}

StatusCodes == {200, 400, 418, 426, 503, 600}

Dates == {[d |-> 1, m |-> 4, y |-> 2019], [d |-> 6, m |-> 11, y |-> 2026]}

Token(k, v) == [kind |-> k, value |-> v]

LandingTokens == {Token("action", "/idp/sso"), Token("action", "/idp/x&amp;y"),
                  Token("other", "")}

CredTokens == {Token("form-error", ""), Token("action", "https://sp/acs?a&amp;b"),
               Token("RelayState", "rs&amp;1"),
               Token("SAMLResponse", "PHN&amp;")}

FinalTokens == {Token("sesskey", "k1"), Token("sesskey", "k2"),
                Token("data-userid", "7")}

SeqsUpTo(S, n) == UNION {[1..k -> S] : k \in 0..n}

Range(s) == {s[i] : i \in DOMAIN s}

EmptyMap == [x \in {} |-> ""]

HeaderMaps == {EmptyMap, "location" :> "/mod/choice/view.php?id=1",
               "retry-after" :> "30", "upgrade" :> "h2c"}

JsonTrue == "error" :> "true"
JsonFalse == ("error" :> "false") @@ ("data" :> "{\"a\":1}")
JsonNoError == "data" :> "{\"b\":2}"

JsonBodies == {<<>>, <<JsonTrue>>, <<JsonFalse>>, <<JsonNoError>>,
               <<JsonFalse, JsonTrue>>}

Response(c, h, t, u) == [status_code |-> c, headers |-> h, text |-> t, url |-> u]

NoResponse == Response(0, EmptyMap, <<>>, <<>>)

Request(m, u, d) == [method |-> m, url |-> u, data |-> d]

NoRequest == Request("", <<>>, EmptyMap)

NoExc == [type |-> "none", args |-> <<>>]

NoValue == [kind |-> "none"]

NoDate == [d |-> 0, m |-> 0, y |-> 0]

LandingUrl == <<"https://lernplattform.mebis.bayern.de">>
AjaxUrl == <<"https://lernplattform.mebis.bayern.de/lib/ajax/service.php">>
ChoiceUrl == <<"https://lernplattform.mebis.bayern.de/", "mod/choice/view.php">>
WrapperUrls == {<<"https://lernplattform.mebis.bayern.de/my/">>}
Methods == {"core_fetch_notifications"}
SurveyIds == {"1"}
ChoiceIds == {"2"}

(***************************************************************************)
(* Library functions the code calls                                        *)
(***************************************************************************)
\* html.unescape on the values that occur: &amp; becomes &.
unescape(s) ==
    CASE s = "https://sp/acs?a&amp;b" -> "https://sp/acs?a&b"
      [] s = "rs&amp;1" -> "rs&1"
      [] s = "PHN&amp;" -> "PHN&"
      [] s = "/idp/x&amp;y" -> "/idp/x&y"
      [] OTHER -> s

None == [matched |-> FALSE, group0 |-> ""]

\* re.search(pattern, text) for the pattern of the given kind of token (for
\* "action" r'(?<=action=\").*?(?=\")', and likewise for the others): the
\* first match, or None.
searchLast(kind, text) ==
    LET at == {i \in DOMAIN text : text[i].kind = kind}
    IN  IF at = {} THEN None
        ELSE [matched |-> TRUE,
              group0 |-> text[CHOOSE i \in at : \A j \in at : i >= j].value]

search(kind, text) ==
    LET at == {i \in DOMAIN text : text[i].kind = kind}
    IN  IF at = {} THEN None
        ELSE [matched |-> TRUE,
              group0 |-> text[CHOOSE i \in at : \A j \in at : i <= j].value]

has_form_error_skipped(text) == FALSE

\* `'form-error' in r.text`
has_form_error(text) == \E i \in DOMAIN text : text[i].kind = "form-error"

\* None.group(0)
NoneGroupError == [type |-> "AttributeError",
                   args |-> <<"'NoneType' object has no attribute 'group'">>]

\* self.<name> on an object that has no such attribute
NoAttributeError(name) ==
    [type |-> "AttributeError",
     args |-> <<"'UserSession' object has no attribute '", name, "'">>]

\* headers[name] on a dictionary without that key
KeyError(name) == [type |-> "KeyError", args |-> <<name>>]

\* [][0] on an empty list
IndexError == [type |-> "IndexError", args |-> <<"list index out of range">>]

(***************************************************************************)
(* The exception classes (lines 179-326)                                   *)
(***************************************************************************)
\* LoginError.__init__(username)
LoginError(username) ==
    [type |-> "LoginError",
     args |-> <<"Error during login for user \"", username, "\".",
                " Most likely the password is incorrect.">>]

\* ActionFailedError.__init__(message)
ActionFailedError(message) == [type |-> "ActionFailedError", args |-> <<message>>]

\* t.strftime(r'%d-%m') == '01-04'
IsAprilFirst(t) == t.d = 1 /\ t.m = 4

\* a = str(int(t.strftime(r'%Y')) - 1998) on the 1st of April, else None (<<>>)
Anniversary(t) == IF IsAprilFirst(t) THEN <<ToString(t.y - 1998)>> ELSE <<>>

\* o: the ordinal suffix chosen by the last digit of a
Ordinal(t) ==
    LET last == (t.y - 1998) % 10
    IN  IF last = 1 THEN "st" ELSE IF last = 2 THEN "nd"
        ELSE IF last = 3 THEN "rd" ELSE "th"

\* t = r.headers['Retry-After'] if 'Retry-After' in r.headers else None (<<>>)
RetryAfter(h) == IF "retry-after" \in DOMAIN h THEN <<h["retry-after"]>> ELSE <<>>

\* `if t`: None and the empty string are false
Truthy(t) == t # <<>> /\ t[1] # ""

ServiceUnavailableText ==
    "Service unavailable. The server is not currently able to respond due to maintenance, overload, etc."

TeapotText == "I'm a teapot. The server did not wish to fulfill this request."

UnknownErrorText == "Unknown error."

\* The codes the conditional chain of lines 204-320 tests for.
TableCodes == {400, 401, 403, 404, 405, 406, 407, 408, 409, 410, 411, 412, 413,
               414, 415, 416, 417, 418, 421, 422, 423, 424, 426, 428, 429, 431,
               451, 500, 501, 502, 503, 504, 506, 507, 508, 510, 511}

\* m: the explanation chosen by the conditional chain of lines 204-320, as the
\* parts of the string.  (The source writes the apostrophe as an acute accent.)
\* Only called with "upgrade" in DOMAIN h when c = 426.
Explanation(c, t, h) ==
    CASE c = 400 -> <<"Bad request. The server could not understand the request due to invalid syntax.">>
      [] c = 401 -> <<"Unauthorized. The client lacked authentication.">>
      [] c = 403 -> <<"Forbidden. The client authorized to the server but does not have the rights to access this resource.">>
      [] c = 404 -> <<"Not found. The requested resource could not be found on this server.">>
      [] c = 405 -> <<"Method not allowed. The request mothod has been disabled by the server. Most likely POST was used wrongly.">>
      [] c = 406 -> <<"Not acceptable. The content type set in the request headers can not be matched by the server.">>
      [] c = 407 -> <<"Proxy authentication required. The cllient did not authorize (correctly). Authorization should be done by a proxy.">>
      [] c = 408 -> <<"Request timeout. The connection to the server has been inactive for too long.">>
      [] c = 409 -> <<"Conflict. The request conflicted with the current state of the server.">>
      [] c = 410 -> <<"Gone. The requested resource has been deleted from the server.">>
      [] c = 411 -> <<"Length required. Header field \"Content-Length\" is missing.">>
      [] c = 412 -> <<"Precontidion failed. The client has indicated conditions in the headers, which the server does not meet.">>
      [] c = 413 -> <<"Payload too large. The request payload is too large.">>
      [] c = 414 -> <<"URI too long. The URI specified is too long for the server to interpret.">>
      [] c = 415 -> <<"Unsupported media type. The requested media type is not supported by the server.">>
      [] c = 416 -> <<"The range specified in the \"Range\" header field could not be satisfied.">>
      [] c = 417 -> <<"Expactation failed. The expectation present in the \"Expect\" header field could not be met.">>
      [] c = 418 /\ Anniversary(t) = <<>> -> <<TeapotText>>
      [] c = 418 /\ Anniversary(t) # <<>> ->
            <<"I'm a teapot. Happy 1st of April and ", Anniversary(t)[1], Ordinal(t),
              " anniversary of the Hyper Text Coffee Pot Control Protocol!">>
      [] c = 421 -> <<"Misdirected request. The request was sent to a server is not able to create a response to your request.">>
      [] c = 422 -> <<"Unprocessable entity. The request could not be processed due to semantic errors.">>
      [] c = 423 -> <<"Locked. The resource you are trying to access is locked.">>
      [] c = 424 -> <<"Failed Dependency. The request failed due to failure of a previous request.">>
      [] c = 426 ->
            <<"Upgrade required. The server refuses to perform the request using the current protocol but might be willing to do so after the client upgrades to one of these protocols: ",
              h["upgrade"]>>
      [] c = 428 -> <<"Precondition required. The client has to indicate preconditions in the headers.">>
      [] c = 429 -> <<"Too many requests. The user has sent too many requests in a given amount of time (\"rate limiting\").">>
      [] c = 431 -> <<"Request header fields too large. The client has sent toomany headers.">>
      [] c = 451 -> <<"Unavailable for legal reasons. The requested resource cannot legally be provided, such as a web page censored by a government.">>
      [] c = 500 -> <<"Internal server error. The server has encountered asituation it doesn't know how to handle.">>
      [] c = 501 -> <<"Not implemented. The request method is not supported by the server and cannot be handled.">>
      [] c = 502 -> <<"Bad gateway. The server working as a gateway got a bad response.">>
      [] c = 503 ->
            \* ('Service ...' f' Try again after {t}.' if t else ''): the
            \* condition covers the whole concatenated string
            IF Truthy(RetryAfter(h))
            THEN <<ServiceUnavailableText, " Try again after ", RetryAfter(h)[1], ".">>
            ELSE <<"">>
      [] c = 504 -> <<"Gateway timeout. The server requested by the gateway did not respond in time.">>
      [] c = 506 -> <<"Internal configuration error.">>
      [] c = 507 -> <<"Insufficient storage. The request could not be met because of insufficient storage on the server side.">>
      [] c = 508 -> <<"Loop detected. The server stopped processing the request since it detected an infinite loop.">>
      [] c = 510 -> <<"Not extended. The request must be extended for the server to fulfill it.">>
      [] c = 511 -> <<"Network authentication required. The client need to authenticate to access the network.">>
      [] OTHER -> <<UnknownErrorText>>

\* 'Client error,' if c < 500 else 'Server error,' if c < 600 else 'Unknown,'
ErrorClass(c) ==
    IF c < 500 THEN "Client error," ELSE IF c < 600 THEN "Server error," ELSE "Unknown,"

IssueHint == " If this issue persists, please open an issue in the GitHub repository."

\* HTTPError(resp), constructed on date t with the global debug = dbg: the
\* exception that `raise HTTPError(resp)` raises.  Evaluating the 426 branch
\* reads resp.headers["Upgrade"], a KeyError when the header is missing.
HTTPError(resp, t, dbg) ==
    LET c == resp.status_code
    IN  IF c = 426 /\ "upgrade" \notin DOMAIN resp.headers
        THEN KeyError("Upgrade")
        ELSE [type |-> "HTTPError",
              args |-> (IF dbg THEN <<"\"">> \o resp.url \o <<"\" responded with: ">>
                        ELSE <<"">>)
                       \o <<ErrorClass(c), " ", ToString(c), ": ">>
                       \o Explanation(c, t, resp.headers)
                       \o <<IssueHint>>]

(***************************************************************************)
(* The responses the remote side may give                                  *)
(***************************************************************************)
LandingResponses ==
    {Response(c, EmptyMap, t, LandingUrl) :
        c \in LoginStatusCodes, t \in SeqsUpTo(LandingTokens, MaxLanding)}

CredResponses(url) ==
    {Response(c, EmptyMap, t, url) :
        c \in LoginStatusCodes, t \in SeqsUpTo(CredTokens, MaxCred)}

FinalResponses(url) ==
    {Response(c, EmptyMap, t, url) :
        c \in LoginStatusCodes, t \in SeqsUpTo(FinalTokens, MaxFinal)}

PlainResponses(url) == {Response(c, h, <<>>, url) : c \in StatusCodes, h \in HeaderMaps}

\* the ajax endpoint: any status and headers with an empty array, or a 200
\* carrying one of the JSON arrays
JsonResponses ==
    PlainResponses(AjaxUrl) \cup {Response(200, EmptyMap, j, AjaxUrl) : j \in JsonBodies}

(***************************************************************************)
(* UserSession.__init__ and _login (lines 42-74), one action per blocking  *)
(* HTTP exchange: the step that receives a response runs the code up to    *)
(* the next request.                                                       *)
(***************************************************************************)
IdpOrigin == "https://idp.mebis.bayern.de"

\* object attribute assignment: self.<name> = v
set_attr(s, name, v) == (name :> v) @@ s

\* the record of a request handed to self._session, its response outstanding
Exchange(call) ==
    [call |-> call, received |-> FALSE, status_code |-> 0, form_error |-> FALSE]

\* the last exchange gets its response
Receive(h, resp) ==
    [h EXCEPT ![Len(h)] =
        [@ EXCEPT !.received = TRUE,
                  !.status_code = resp.status_code,
                  !.form_error = \E i \in DOMAIN resp.text :
                                     resp.text[i].kind = "form-error"]]

\* the arguments of the constructor are gone when it ends; the object keeps
\* no copy of them (no line assigns self._user)
EndOfCall ==
    /\ user' = ""
    /\ pwd' = ""

\* the exception leaves the constructor: the caller gets no object
Fail(e) ==
    /\ pc' = "raised"
    /\ raised' = e
    /\ EndOfCall

\* set_debug(val), lines 16-24; only between calls of the single thread
SetDebug ==
    /\ pc \in {"idle", "ready", "raised"}
    /\ \E val \in BOOLEAN :
        /\ debug # val
        /\ debug' = val
    /\ UNCHANGED <<pc, op, user, pwd, self, r, sent, handshake, today, raised, returned>>

\* UserSession(u, p) up to the landing-page GET of line 53
Construct ==
    /\ pc = "idle"
    /\ \E c \in Credentials :
        /\ user' = c[1]
        /\ pwd' = c[2]
    /\ pc' = "await_landing"
    /\ op' = "__init__"
    /\ self' = set_attr(EmptyMap, "_session", "Session()")
    /\ sent' = Request("GET", LandingUrl, EmptyMap)
    /\ handshake' = <<Exchange("get:53")>>
    /\ UNCHANGED <<debug, r, today, raised, returned>>

\* lines 53-59: the landing page arrives, the credentials are posted
RecvLanding ==
    /\ pc = "await_landing"
    /\ \E resp \in LandingResponses :
        /\ r' = resp
        /\ LET m == search("action", resp.text)
           IN  IF ~m.matched
               THEN /\ Fail(NoneGroupError)
                    /\ handshake' = Receive(handshake, resp)
                    /\ UNCHANGED sent
               ELSE /\ pc' = "await_cred"
                    /\ sent' = Request("POST", <<IdpOrigin, m.group0>>,
                                       ("j_username" :> user) @@ ("j_password" :> pwd)
                                       @@ ("_eventId_proceed" :> ""))
                    /\ handshake' = Append(Receive(handshake, resp), Exchange("post:57"))
                    /\ UNCHANGED <<raised, user, pwd>>
    /\ UNCHANGED <<debug, op, self, today, returned>>

\* lines 57-69: the answer to the credentials arrives; the form-error check,
\* the three extractions, the assertion POST
RecvCred ==
    /\ pc = "await_cred"
    /\ \E resp \in CredResponses(sent.url) :
        /\ r' = resp
        /\ LET a == search("action", resp.text)
               rs == search("RelayState", resp.text)
               saml == search("SAMLResponse", resp.text)
           IN  IF has_form_error(resp.text)
               THEN \* raise LoginError(self._user): self._user is read first
                    /\ Fail(IF "_user" \in DOMAIN self THEN LoginError(self["_user"])
                            ELSE NoAttributeError("_user"))
                    /\ handshake' = Receive(handshake, resp)
                    /\ UNCHANGED sent
               ELSE IF ~a.matched \/ ~rs.matched \/ ~saml.matched
               THEN /\ Fail(NoneGroupError)
                    /\ handshake' = Receive(handshake, resp)
                    /\ UNCHANGED sent
               ELSE /\ pc' = "await_assert"
                    /\ sent' = Request("POST", <<unescape(a.group0)>>,
                                       ("RelayState" :> unescape(rs.group0))
                                       @@ ("SAMLResponse" :> saml.group0))
                    /\ handshake' = Append(Receive(handshake, resp), Exchange("post:68"))
                    /\ UNCHANGED <<raised, user, pwd>>
    /\ UNCHANGED <<debug, op, self, today, returned>>

\* lines 68-74: the final response arrives; sesskey and userid are extracted
RecvAssert ==
    /\ pc = "await_assert"
    /\ \E resp \in FinalResponses(sent.url) :
        /\ r' = resp
        /\ handshake' = Receive(handshake, resp)
        /\ LET k == search("sesskey", resp.text)
               u == search("data-userid", resp.text)
           IN  IF ~k.matched
               THEN /\ Fail(NoneGroupError)
                    /\ UNCHANGED self
               ELSE IF ~u.matched
               THEN /\ Fail(NoneGroupError)
                    /\ self' = set_attr(self, "sesskey", k.group0)
               ELSE /\ pc' = "ready"
                    /\ self' = set_attr(set_attr(self, "sesskey", k.group0),
                                        "userid", u.group0)
                    /\ EndOfCall
                    /\ UNCHANGED raised
    /\ UNCHANGED <<debug, op, sent, today, returned>>

(***************************************************************************)
(* The operations of a logged-in session (lines 76-172).  Each action is   *)
(* one whole call: the request, its response resp, the result.             *)
(***************************************************************************)
Returned(k, v) == [kind |-> k, value |-> v]

\* lines 90-92 and 108-110 on the response resp, should an HTTPError be
\* constructed on date t: what the wrapper raises and what it returns
wrapper_result(resp, t, dbg) ==
    IF resp.status_code >= 400
    THEN [raised |-> HTTPError(resp, t, dbg), returned |-> NoValue]
    ELSE [raised |-> NoExc, returned |-> Returned("Response", resp)]

AjaxFailedMessage ==
    "The ajax request failed. Check for spelling errors or take a look at the docs."

\* lines 128-136: self.post(...).json()[0], then the error test
ajax_result(resp, t, dbg) ==
    LET w == wrapper_result(resp, t, dbg)
        json == resp.text
    IN  IF w.raised # NoExc THEN w
        ELSE IF json = <<>> THEN [raised |-> IndexError, returned |-> NoValue]
        ELSE IF "error" \notin DOMAIN json[1]
        THEN [raised |-> KeyError("error"), returned |-> NoValue]
        ELSE IF json[1]["error"] = "true"
        THEN [raised |-> ActionFailedError(AjaxFailedMessage), returned |-> NoValue]
        ELSE IF "data" \notin DOMAIN json[1]
        THEN [raised |-> KeyError("data"), returned |-> NoValue]
        ELSE [raised |-> NoExc, returned |-> Returned("json", json[1]["data"])]

\* lines 155-172: self._session.post never raises HTTPError, so the except
\* clause is not entered; the result is `'location' in r.headers`
survey_result(resp) ==
    [raised |-> NoExc, returned |-> Returned("bool", "location" \in DOMAIN resp.headers)]

\* a completed call of a method of the session: its request, response and result
Call(name, req, resp, res) ==
    /\ op' = name
    /\ sent' = req
    /\ r' = resp
    /\ raised' = res.raised
    /\ returned' = res.returned
    /\ UNCHANGED <<debug, pc, user, pwd, handshake>>

\* the dates date.today() may give the HTTPError.__init__ of this call; it is
\* read only when the wrapper constructs an HTTPError
Clock(resp) == IF resp.status_code >= 400 THEN Dates ELSE {NoDate}

\* UserSession.get(url)
Get ==
    /\ pc = "ready"
    /\ \E url \in WrapperUrls : \E resp \in PlainResponses(url) : \E t \in Clock(resp) :
        /\ Call("get", Request("GET", url, EmptyMap), resp,
                wrapper_result(resp, t, debug))
        /\ today' = t
    /\ UNCHANGED self

\* UserSession.post(url)
Post ==
    /\ pc = "ready"
    /\ \E url \in WrapperUrls : \E resp \in PlainResponses(url) : \E t \in Clock(resp) :
        /\ Call("post", Request("POST", url, EmptyMap), resp,
                wrapper_result(resp, t, debug))
        /\ today' = t
    /\ UNCHANGED self

AjaxRequest(method, args) ==
    Request("POST", AjaxUrl,
            ("sesskey" :> self["sesskey"]) @@ ("methodname" :> method) @@ ("args" :> args))

AjaxRefreshingKey ==
    /\ pc = "ready"
    /\ \E method \in Methods : \E resp \in JsonResponses : \E t \in Clock(resp) :
        /\ Call("ajax", AjaxRequest(method, "{}"), resp, ajax_result(resp, t, debug))
        /\ today' = t
        /\ self' = IF resp.status_code >= 400 THEN set_attr(self, "sesskey", "")
                   ELSE self

\* UserSession.ajax(method, args)
Ajax ==
    /\ pc = "ready"
    /\ \E method \in Methods : \E resp \in JsonResponses : \E t \in Clock(resp) :
        /\ Call("ajax", AjaxRequest(method, "{}"), resp, ajax_result(resp, t, debug))
        /\ today' = t
    /\ UNCHANGED self

\* UserSession.make_survey_choice(survey_id, choice_id)
MakeSurveyChoice ==
    /\ pc = "ready"
    /\ \E survey_id \in SurveyIds, choice_id \in ChoiceIds :
       \E resp \in PlainResponses(ChoiceUrl) :
        /\ Call("make_survey_choice",
                Request("POST", ChoiceUrl,
                        ("answer" :> choice_id) @@ ("sesskey" :> self["sesskey"])
                        @@ ("action" :> "makechoice") @@ ("id" :> survey_id)),
                resp, survey_result(resp))
        /\ today' = NoDate
    /\ UNCHANGED self

(***************************************************************************)
(* The specification                                                       *)
(***************************************************************************)
Init ==
    /\ debug = FALSE
    /\ pc = "idle"
    /\ op = "none"
    /\ user = ""
    /\ pwd = ""
    /\ self = EmptyMap
    /\ r = NoResponse
    /\ sent = NoRequest
    /\ handshake = <<>>
    /\ today = NoDate
    /\ raised = NoExc
    /\ returned = NoValue

Next ==
    \/ SetDebug
    \/ Construct
    \/ RecvLanding
    \/ RecvCred
    \/ RecvAssert
    \/ Get
    \/ Post
    \/ Ajax
    \/ MakeSurveyChoice

Spec == Init /\ [][Next]_vars

(***************************************************************************)
(* The claims                                                              *)
(***************************************************************************)
\* how many exchanges of the handshake got their response; while the
\* constructor is the last call, r is the response of that exchange
NReceived == Cardinality({i \in DOMAIN handshake : handshake[i].received})

InLogin == op = "__init__"

HasKind(text, k) == \E i \in DOMAIN text : text[i].kind = k

RECURSIVE FirstOf(_, _)
\* the value of the first token of kind k of a text, read left to right
FirstOf(text, k) ==
    IF text = <<>> THEN ""
    ELSE IF Head(text).kind = k THEN Head(text).value
    ELSE FirstOf(Tail(text), k)

StatusesBelow400 == \A i \in DOMAIN handshake : handshake[i].status_code < 400

IsResult(opname) == pc = "ready" /\ op = opname

\* C1: get and post on a logged-in session raise an HTTP error carrying the
\* status code when the response has status >= 400, and otherwise return that
\* same response and raise nothing.
C1_WrapperRaisesHTTPError ==
    (IsResult("get") \/ IsResult("post")) =>
        IF r.status_code >= 400
        THEN /\ raised.type = "HTTPError"
             /\ ToString(r.status_code) \in Range(raised.args)
        ELSE /\ raised = NoExc
             /\ returned = Returned("Response", r)

\* C2: when the response to the credential POST contains the form-error
\* marker, construction fails with a Login error that names the supplied
\* username and not the password, and with no other kind of error.
C2_FormErrorRaisesLoginError ==
    (InLogin /\ Len(handshake) >= 2 /\ handshake[2].received /\ handshake[2].form_error) =>
        /\ pc = "raised"
        /\ raised.type = "LoginError"
        /\ sent.data["j_username"] \in Range(raised.args)
        /\ sent.data["j_password"] \notin Range(raised.args)

\* the response just received lacks a pattern the login step extracts from it
ExpectedPatternAbsent ==
    \/ NReceived = 1 /\ ~HasKind(r.text, "action")
    \/ /\ NReceived = 2
       /\ ~handshake[2].form_error
       /\ \/ ~HasKind(r.text, "action")
          \/ ~HasKind(r.text, "RelayState")
          \/ ~HasKind(r.text, "SAMLResponse")
    \/ NReceived = 3 /\ ~HasKind(r.text, "sesskey")

\* C3: if an exchange of the handshake is answered with a status >= 400,
\* construction fails with an HTTP error for that response: the handshake
\* goes no further and no session is yielded.  (Stated for responses whose
\* body has the patterns of its step and no form-error marker, so that the
\* status is the only thing wrong with them.)
C3_HandshakeStatusRaisesHTTPError ==
    \A i \in DOMAIN handshake :
        /\ InLogin
        /\ i = NReceived
        /\ handshake[i].status_code >= 400
        /\ ~handshake[i].form_error
        /\ ~ExpectedPatternAbsent
        => /\ pc = "raised"
           /\ raised.type = "HTTPError"
           /\ Len(handshake) = i

\* C4: whenever an expected pattern is absent from a response of the
\* handshake, construction fails with an explicit unexpected-response error,
\* not with an internal error and not with an empty value in the session.
C4_MissingPatternRaisesUnexpectedResponse ==
    (InLogin /\ StatusesBelow400 /\ ExpectedPatternAbsent) =>
        /\ pc = "raised"
        /\ raised.type = "UnexpectedResponseError"

\* the three exchanges were answered as the handshake expects, and the final
\* response carries a sesskey token
FaithfulHandshake ==
    /\ InLogin
    /\ NReceived = 3
    /\ StatusesBelow400
    /\ ~handshake[2].form_error
    /\ HasKind(r.text, "sesskey")

C6_AjaxResult ==
    IsResult("ajax") =>
        IF r.status_code >= 400
        THEN raised.type = "HTTPError"
        ELSE (r.text # <<>> /\ "error" \in DOMAIN r.text[1]) =>
                IF r.text[1]["error"] = "true"
                THEN raised.type = "ActionFailedError"
                ELSE "data" \in DOMAIN r.text[1] =>
                        /\ raised = NoExc
                        /\ returned = Returned("json", r.text[1]["data"])

\* C7: make_survey_choice never raises and returns a boolean: true when the
\* response carries a Location header, false when it does not, and false when
\* the POST is answered with a status >= 400, whatever its headers.
C7_SurveyChoiceResult ==
    IsResult("make_survey_choice") =>
        /\ raised = NoExc
        /\ returned.kind = "bool"
        /\ returned.value = (r.status_code < 400 /\ "location" \in DOMAIN r.headers)

\* C8: for every status >= 400 and every set of headers the HTTP error can be
\* constructed, and its message has the status code and the table's
\* explanation: the generic text for a code outside the table, the
\* service-unavailable text for 503 (with the Retry-After value when that
\* header is present), the plain teapot text for 418 on a day other than the
\* 1st of April.
C8_HTTPErrorMessage ==
    ((IsResult("get") \/ IsResult("post") \/ IsResult("ajax")) /\ r.status_code >= 400) =>
        /\ raised.type = "HTTPError"
        /\ ToString(r.status_code) \in Range(raised.args)
        /\ r.status_code \notin TableCodes => UnknownErrorText \in Range(raised.args)
        /\ r.status_code = 503 =>
            /\ ServiceUnavailableText \in Range(raised.args)
            /\ "retry-after" \in DOMAIN r.headers =>
                    r.headers["retry-after"] \in Range(raised.args)
        /\ (r.status_code = 418 /\ ~(today.d = 1 /\ today.m = 4)) =>
            /\ TeapotText \in Range(raised.args)
            /\ ToString(today.y - 1998) \notin Range(raised.args)

\* C9: the handshake issues the landing-page GET, the credential POST and the
\* assertion POST in that order, each after the response to the one before;
\* when the credential response has the form-error marker, the assertion POST
\* is never issued and no session key is ever assigned.
C9_HandshakeOrder ==
    /\ Len(handshake) <= 3
    /\ \A i \in DOMAIN handshake :
        /\ handshake[i].call = <<"get:53", "post:57", "post:68">>[i]
        /\ i < Len(handshake) => handshake[i].received
    /\ (pc = "await_landing" => sent.method = "GET")
    /\ (pc \in {"await_cred", "await_assert"} => sent.method = "POST")
    /\ (Len(handshake) >= 2 /\ handshake[2].form_error) =>
            /\ Len(handshake) = 2
            /\ pc = "raised"
            /\ "sesskey" \notin DOMAIN self

\* the credential response had the marker and the constructor has raised
C9_Witness ==
    /\ Len(handshake) = 2
    /\ handshake[2].received
    /\ handshake[2].form_error
    /\ pc = "raised"

\* C10: once the constructor has returned a session, its session key is the
\* value extracted at login and no later get, post, ajax or
\* make_survey_choice call, returning or raising, changes it; no such call is
\* ever made on a session whose login failed.
C10_SesskeyStable ==
    /\ [](pc = "ready" =>
            /\ "sesskey" \in DOMAIN self
            /\ InLogin => self["sesskey"] = FirstOf(r.text, "sesskey"))
    /\ [][pc = "ready" => (pc' = "ready" /\ self'["sesskey"] = self["sesskey"])]_vars
    /\ [][op' # op => (IF op' = "__init__" THEN pc = "idle" ELSE pc = "ready")]_vars
    /\ [](pc = "raised" => InLogin)

\* a call on the session has raised after a successful login
C10_Witness ==
    /\ IsResult("ajax")
    /\ raised.type = "HTTPError"
    /\ self["sesskey"] \in {"k1", "k2"}

====
